---- MODULE Spec2Model ----
(***************************************************************************)
(* Model of DynamicProgramming/FirmDiscrete.ipynb: the value-function      *)
(* iteration (VFI) solver of the firm problem with a fixed, non-convex     *)
(* capital adjustment cost.                                                *)
(*                                                                         *)
(* Arithmetic.  The notebook works in floating point.  Here every value    *)
(* (capital, payoff, value function, distance, tolerance) is the integer   *)
(* x * Scale, and the parameters are rationals chosen so that every        *)
(* product and quotient of the run is exact:                               *)
(*   alpha_l = 1/2, alpha_k = 1/4, w = 1/4, so that                        *)
(*       op(z,k) = (1-alpha_l)*(alpha_l/w)^(alpha_l/(1-alpha_l))           *)
(*                 * (z*k^alpha_k)^(1/(1-alpha_l))  =  z^2 * sqrt(k);      *)
(*   (1-delta)^(1/dens) = 1/4, so that the capital grid is kbar / 4^n;     *)
(*   betafirm = 1/(1+r) with r a positive integer;                         *)
(*   Pi has entries in quarters; F is in sixteenths.                       *)
(***************************************************************************)
EXTENDS Integers, Sequences, FiniteSets, TLC

\* ---------------------------------------------------------------- bounds
\* largest iteration ceiling VFmaxiter that is explored
MaxIter == 4

\* ------------------------------------------------------- number formats
\* Pi is held as numerators over PiDen, F as a numerator over FDen
PiDen == 4
FDen == 16

RECURSIVE Pow(_, _)
Pow(b, n) == IF n <= 0 THEN 1 ELSE b * Pow(b, n - 1)

SetMax(S) == CHOOSE x \in S : \A y \in S : y <= x
SetMin(S) == CHOOSE x \in S : \A y \in S : x <= y

\* dens: grid points per depreciation step;  r: the interest rate
DensValues == {1, 2}
RValues == {1}

\* one unit of value: a multiple of every denominator a run can meet (the
\* depreciation factor 4^dens once, Pi and 1 + r once per iteration)
Scale ==
    Pow(4, SetMax(DensValues)) * Pow(PiDen * (1 + SetMax(RValues)), MaxIter)

\* The float specials.  inf and -inf lie above and below every finite value
\* of a run and nan lies above inf, so that the integer order gives what
\* max, argmax, np.maximum and np.absolute give (nan wins, then inf); the
\* sums, products and comparisons of floats are the operators below.
Inf == 1073741824
NaN == Inf + 1
IsInf(x) == x = Inf \/ x = 0 - Inf
IsFinite(x) == x > 0 - Inf /\ x < Inf

\* IEEE arithmetic on the scaled values; each argument is bound once
Add(x, y) ==
    CHOOSE s \in {IF a = NaN \/ b = NaN THEN NaN
                  ELSE IF IsInf(a) THEN (IF b = 0 - a THEN NaN ELSE a)
                  ELSE IF IsInf(b) THEN b
                  ELSE a + b : a \in {x}, b \in {y}} : TRUE
Neg(x) == CHOOSE s \in {IF a = NaN THEN NaN ELSE 0 - a : a \in {x}} : TRUE
Sub(x, y) == Add(x, Neg(y))
Mul(x, y) ==
    CHOOSE s \in {IF a = NaN \/ b = NaN THEN NaN
                  ELSE IF IsInf(a) \/ IsInf(b)
                       THEN (IF a = 0 \/ b = 0 THEN NaN
                             ELSE IF (a > 0) = (b > 0) THEN Inf ELSE 0 - Inf)
                  ELSE a * b : a \in {x}, b \in {y}} : TRUE
\* x / d for a finite d > 0
Div(x, d) ==
    CHOOSE s \in {IF IsFinite(a) THEN a \div d ELSE a : a \in {x}} : TRUE
\* x > y and x >= y: false when either is nan
Gt(x, y) == \E a \in {x}, b \in {y} : a # NaN /\ b # NaN /\ a > b
Geq(x, y) == \E a \in {x}, b \in {y} : a # NaN /\ b # NaN /\ a >= b

Abs(x) == CHOOSE s \in {IF a < 0 THEN 0 - a ELSE a : a \in {x}} : TRUE
RECURSIVE SumTo(_, _)
\* f[0] + ... + f[n-1]
SumTo(f, n) == IF n <= 0 THEN 0 ELSE Add(f[n - 1], SumTo(f, n - 1))

VARIABLES
    pc,             \* position in the notebook
    sizez, z, Pi,   \* productivity grid (z holds z^2) and transition matrix
    dens, kbar, lb_k, F, r,
    VFtol, VFmaxiter,
    sizek, kvec,    \* capital grid
    e_i, e_a,       \* flow payoffs
    V, TV, EV, EV_i, Vmat, V_i, V_a, PF_continuous, Vstore,
    VFdist, VFiter,
    report, VF, PF_discrete, optK, optI,
    napps,          \* history: number of executions of the loop body
    Vprev,          \* history: V at the start of the last loop body
    VFdistPrev,     \* history: VFdist at the start of the last loop body
    written         \* history: cells of Vmat written by the running create_Vmat

cfgvars == <<sizez, z, Pi, dens, kbar, lb_k, F, r, VFtol, VFmaxiter>>
gridvars == <<sizek, kvec, e_i, e_a>>
loopvars == <<V, TV, EV, EV_i, Vmat, V_i, V_a, PF_continuous, Vstore,
              VFdist, VFiter, napps, Vprev, VFdistPrev>>
outvars == <<report, VF, PF_discrete, optK, optI>>
vars == <<pc, cfgvars, gridvars, loopvars, outvars, written>>

\* a name that is not bound yet (reading it is a NameError)
Unbound == <<>>
\* content of an np.empty cell never written: no value of a run
Garbage == 0 - (Inf + 2)

\* ------------------------------------------------------- configurations
SizezValues == {1, 2}
ZValues(n) == IF n = 1 THEN {[i \in 0..0 |-> 1], [i \in 0..0 |-> 8]}
              ELSE {[i \in 0..1 |-> IF i = 0 THEN 1 ELSE 2],
                    [i \in 0..1 |-> IF i = 0 THEN 1 ELSE 4],
                    [i \in 0..1 |-> IF i = 0 THEN 2 ELSE 8]}
\* probability (in quarters) of staying in the same productivity state
StayValues(n) == IF n = 1 THEN {4} ELSE {2, 3, 4}
PiOf(n, stay) ==
    [i \in 0..(n - 1) |-> [l \in 0..(n - 1) |->
        IF i = l THEN stay ELSE IF l = (i + 1) % n THEN PiDen - stay ELSE 0]]
KbarValues == {4, 16, 64}
LbValues == {1}
\* with the configurations the spec calls errors (kbar <= lb_k) and a
\* productivity grid whose top state overflowed in np.exp
LbAnyValues == {1, 16}
ZAnyValues(n) == ZValues(n) \cup
    {[i \in 0..(n - 1) |-> IF i = n - 1 THEN Inf ELSE 1]}
FValues == {0, 1, 4}
TolValues == {0, Scale \div 4, Scale, 4 * Scale, 8 * Scale}
MaxiterValues == 1..MaxIter

\* ------------------------------------------------ capital grid (cell 1)
RECURSIVE LeastExp(_, _, _, _)
\* least n >= from with lo * base^n >= hi
LeastExp(lo, hi, base, from) ==
    IF lo * Pow(base, from) >= hi THEN from ELSE LeastExp(lo, hi, base, from + 1)

RECURSIVE GreatestExp(_, _, _, _)
\* greatest m >= from with lo * base^m <= hi, given lo * base^from <= hi
GreatestExp(lo, hi, base, from) ==
    IF lo * Pow(base, from + 1) > hi THEN from
    ELSE GreatestExp(lo, hi, base, from + 1)

\* numb = ceil(log(lb_k / ub_k) / log(1 - delta)), with 1/(1-delta) = 4^dens
numbOf(lb, ub, d) ==
    IF ub > lb THEN LeastExp(lb, ub, Pow(4, d), 1)
    ELSE 0 - GreatestExp(ub, lb, Pow(4, d), 0)

\* K[j] = ub_k * (1 - delta) ** (j / dens);  kvec = K[::-1]
K(ub, j) == (ub * Scale) \div Pow(4, j)
\* K taken as the grid without the reversal
kvecUnreversed(ub, n) == [i \in 0..(n - 1) |-> K(ub, i)]
kvecOf(ub, n) == [i \in 0..(n - 1) |-> K(ub, n - 1 - i)]

\* the old capital counted without depreciation
DepreciatedNone(x, d) == x
\* (1 - delta) * x  and  F * x
Depreciated(x, d) == x \div Pow(4, d)
FixedCost(f, x) == (f * x) \div FDen

\* ------------------------------------------------ flow payoffs (cell 3)
ISqrt(n) == CHOOSE s \in 0..n : s * s = n
\* sqrt(kvec[j]) for the j-th point of a grid of n points below ub
Root(ub, n, j) == (ISqrt(ub) * Scale) \div Pow(2, n - 1 - j)
\* op = (1-alpha_l) * (alpha_l/w)^(alpha_l/(1-alpha_l))
\*        * (z[i] * kvec[j]^alpha_k)^(1/(1-alpha_l))
op(zz, ub, n, i, j) == Mul(zz[i], Root(ub, n, j))

e_iOf(zz, ub, nz, nk) ==
    [i \in 0..(nz - 1) |-> [j \in 0..(nk - 1) |-> op(zz, ub, nk, i, j)]]
e_aOf(zz, ub, nz, nk, kv, d, f) ==
    [i \in 0..(nz - 1) |-> [j \in 0..(nk - 1) |-> [m \in 0..(nk - 1) |->
        Sub(Add(Sub(op(zz, ub, nk, i, j), kv[m]), Depreciated(kv[j], d)),
            FixedCost(f, kv[j]))]]]

InitWith(lbs, Zof) ==
    /\ pc = "grid"
    /\ sizez \in SizezValues
    /\ z \in Zof[sizez]
    /\ \E stay \in StayValues(sizez) : Pi = PiOf(sizez, stay)
    /\ dens \in DensValues
    /\ kbar \in KbarValues
    /\ lb_k \in lbs
    /\ F \in FValues
    /\ r \in RValues
    /\ VFtol \in TolValues
    /\ VFmaxiter \in MaxiterValues
    /\ sizek = 0 /\ kvec = Unbound /\ e_i = Unbound /\ e_a = Unbound
    /\ V = Unbound /\ TV = Unbound /\ EV = Unbound /\ EV_i = Unbound
    /\ Vmat = Unbound /\ V_i = Unbound /\ V_a = Unbound
    /\ PF_continuous = Unbound /\ Vstore = Unbound
    /\ VFdist = 0 /\ VFiter = 0
    /\ report = "" /\ VF = Unbound /\ PF_discrete = Unbound
    /\ optK = Unbound /\ optI = Unbound
    /\ napps = 0 /\ Vprev = Unbound /\ VFdistPrev = 0
    /\ written = {}

\* the valid configurations
Init == InitWith(LbValues, [n \in SizezValues |-> ZValues(n)])
\* every configuration
InitAny == InitWith(LbAnyValues, [n \in SizezValues |-> ZAnyValues(n)])

\* cell 1: the capital grid
BuildGrid ==
    /\ pc = "grid"
    /\ LET numb == numbOf(lb_k, kbar, dens)
           n == numb * dens
       IN IF n < 0
          THEN \* np.empty of a negative length
               /\ pc' = "ValueError"
               /\ UNCHANGED gridvars
          ELSE /\ sizek' = n
               /\ kvec' = kvecOf(kbar, n)
               /\ pc' = "payoffs"
               /\ UNCHANGED <<e_i, e_a>>
    /\ UNCHANGED <<cfgvars, loopvars, outvars>>
    /\ UNCHANGED written

\* cell 3: the per-period flows
BuildPayoffs ==
    /\ pc = "payoffs"
    /\ e_i' = e_iOf(z, kbar, sizez, sizek)
    /\ e_a' = e_aOf(z, kbar, sizez, sizek, kvec, dens, F)
    /\ pc' = "vfi"
    /\ UNCHANGED <<cfgvars, sizek, kvec, loopvars, outvars>>
    /\ UNCHANGED written
\* ------------------------------------------------------- VFI (cell 7)
Zs == 0..(sizez - 1)
Ks == 0..(sizek - 1)

\* the continuation value left undiscounted
BetaOne(x) == x
\* betafirm * x, betafirm = 1 / (1 + r)
Beta(x) == Div(x, 1 + r)

\* np.dot(Pi, v)
Dot(P, v) ==
    [i \in Zs |-> [j \in Ks |->
        Div(SumTo([l \in Zs |-> Mul(P[i][l], v[l][j])], sizez), PiDen)]]

\* the shifted block left as the buffer held it
ShiftAssignSkipped(buf, ev) == buf
\* EV_i[:, dens:] = EV[:, :sizek - dens]
ShiftAssign(buf, ev) ==
    [i \in Zs |-> [j \in Ks |-> IF j >= dens THEN ev[i][j - dens] ELSE buf[i][j]]]
\* the columns below dens copied without the clamp to column 0
TileUnclamped(buf, ev) ==
    [i \in Zs |-> [j \in Ks |-> IF j < dens THEN ev[i][j] ELSE buf[i][j]]]
\* EV_i[:, :dens] = np.tile(np.reshape(EV[:, 0], (sizez, 1)), (1, dens))
TileAssign(buf, ev) ==
    [i \in Zs |-> [j \in Ks |-> IF j < dens THEN ev[i][0] ELSE buf[i][j]]]

\* the cells (i, j, m) of Vmat
Cells == {<<i, j, m>> : i \in Zs, j \in Ks, m \in Ks}
\* the continuation term taken back from the cell of the first capital
\* row: right in the order of the source, wrong in other orders
CellOfNeighbour(ev, e, vm, i, j, m) ==
    IF j = 0 THEN Add(e[i][j][m], Beta(ev[i][m]))
    ELSE Add(Sub(vm[i][0][m], e[i][0][m]), e[i][j][m])
\* the right-hand side of the assignment to Vmat[i, j, m]
CellOf(ev, e, vm, i, j, m) == Add(e[i][j][m], Beta(ev[i][m]))
\* the continuation value taken at the current capital, not at the choice
create_VmatAtState(ev, e, buf) ==
    [i \in Zs |-> [j \in Ks |-> [m \in Ks |-> Add(e[i][j][m], Beta(ev[i][j]))]]]
create_Vmat(ev, e, buf) ==
    [i \in Zs |-> [j \in Ks |-> [m \in Ks |-> Add(e[i][j][m], Beta(ev[i][m]))]]]

\* Vmat.max(axis=2)
MaxAxis2(vm) == [i \in Zs |-> [j \in Ks |-> SetMax({vm[i][j][m] : m \in Ks})]]
\* np.argmax(Vmat, axis=2): the first index of the maximum
ArgMaxAxis2(vm) ==
    [i \in Zs |-> [j \in Ks |->
        SetMin({m \in Ks : vm[i][j][m] = SetMax({vm[i][j][n] : n \in Ks})})]]
\* one of the two arrays returned whatever the other holds
MaximumFirst(a, b) == a
MaximumSecond(a, b) == b
\* np.maximum(a, b)
Maximum(a, b) ==
    [i \in Zs |-> [j \in Ks |-> IF a[i][j] >= b[i][j] THEN a[i][j] ELSE b[i][j]]]
\* the distance taken as the smallest, not the largest, difference
SupDistMin(a, b) == SetMin({Abs(Sub(a[i][j], b[i][j])) : i \in Zs, j \in Ks})
\* (np.absolute(a - b)).max()
SupDist(a, b) == SetMax({Abs(Sub(a[i][j], b[i][j])) : i \in Zs, j \in Ks})

\* V[:] = np.maximum(V_a, V_i): the array that TV also names is overwritten
InPlace(old, new) == [TV |-> new, V |-> new]
\* TV = V ... V = np.maximum(V_a, V_i): V is rebound to a new array, the
\* array TV names is left as it was
Rebind(old, new) == [TV |-> old, V |-> new]

\* the slot taken as the number of iterations completed before this one
VstoreSlotZeroBased(iter) == iter - 1
\* Vstore[:, :, VFiter] = ...: the slot is the counter before its increment
VstoreSlot(iter) == iter
\* the loop without its ceiling
LoopCondNoCeiling(dist, tol, iter, maxiter) == Gt(dist, tol)
\* the loop going on at distance = tolerance
LoopCondGeq(dist, tol, iter, maxiter) == Geq(dist, tol) /\ iter < maxiter
\* while VFdist > VFtol and VFiter < VFmaxiter
LoopCond(dist, tol, iter, maxiter) == Gt(dist, tol) /\ iter < maxiter

\* the report with the ceiling itself counted as converged
ReportLeq(iter, maxiter) ==
    IF iter <= maxiter THEN "converged" ELSE "did not converge"
\* if VFiter < VFmaxiter: print(converged) else: print(did not converge)
Report(iter, maxiter) ==
    IF iter < maxiter THEN "converged" ELSE "did not converge"

\* the initialisation with the counter started at 0
InitVFIFromZero ==
    /\ pc = "vfi"
    /\ VFdist' = 7 * Scale
    /\ V' = [i \in Zs |-> [j \in Ks |-> 0]]
    /\ EV_i' = [i \in Zs |-> [j \in Ks |-> Garbage]]
    /\ Vmat' = [i \in Zs |-> [j \in Ks |-> [m \in Ks |-> Garbage]]]
    /\ Vstore' = [n \in 0..(VFmaxiter - 1) |-> Unbound]
    /\ VFiter' = 0
    /\ pc' = "loop"
    /\ UNCHANGED <<cfgvars, gridvars, outvars, TV, EV, V_i, V_a,
                   PF_continuous, napps, Vprev, VFdistPrev>>
    /\ UNCHANGED written
InitVFI ==
    /\ pc = "vfi"
    /\ VFdist' = 7 * Scale
    /\ V' = [i \in Zs |-> [j \in Ks |-> 0]]
    /\ EV_i' = [i \in Zs |-> [j \in Ks |-> Garbage]]
    /\ Vmat' = [i \in Zs |-> [j \in Ks |-> [m \in Ks |-> Garbage]]]
    /\ Vstore' = [n \in 0..(VFmaxiter - 1) |-> Unbound]
    /\ VFiter' = 1
    /\ pc' = "loop"
    /\ UNCHANGED <<cfgvars, gridvars, outvars, TV, EV, V_i, V_a,
                   PF_continuous, napps, Vprev, VFdistPrev>>
    /\ UNCHANGED written

\* the value function one pass of the loop body computes from v
Bellman(v) ==
    LET ev == Dot(Pi, v)
        evi == TileAssign(ShiftAssign(EV_i, ev), ev)
        vm == create_Vmat(ev, e_a, Vmat)
        vi == [i \in Zs |-> [j \in Ks |-> Add(e_i[i][j], Beta(evi[i][j]))]]
    IN Maximum(MaxAxis2(vm), vi)

\* create_Vmat adding the continuation value into e itself
create_Vmat_argsInPlace(ev, e, P) ==
    [EV |-> ev, e |-> create_Vmat(ev, e, Vmat), Pi |-> P]
\* the arrays passed to create_Vmat, as they are when it returns: it reads
\* e and EV and never assigns to them, and it does not touch Pi
create_Vmat_args(ev, e, P) == [EV |-> ev, e |-> e, Pi |-> P]

\* one execution of the loop body
Iterate ==
    /\ pc = "loop"
    /\ LoopCond(VFdist, VFtol, VFiter, VFmaxiter)
    /\ IF sizek = 0
       THEN \* EV[:, 0] on an array without columns
            /\ TV' = V
            /\ EV' = Dot(Pi, V)
            /\ pc' = "IndexError"
            /\ UNCHANGED <<V, EV_i, Vmat, V_i, V_a, PF_continuous, Vstore,
                           VFdist, VFiter, e_a, Pi>>
       ELSE LET ev == Dot(Pi, V)
                evi == TileAssign(ShiftAssign(EV_i, ev), ev)
                vm == create_Vmat(ev, e_a, Vmat)
                after == create_Vmat_args(ev, e_a, Pi)
                vi == [i \in Zs |-> [j \in Ks |->
                          Add(e_i[i][j], Beta(evi[i][j]))]]
                va == MaxAxis2(vm)
                b == Rebind(V, Maximum(va, vi))
            IN /\ EV' = after.EV
               /\ e_a' = after.e
               /\ Pi' = after.Pi
               /\ EV_i' = evi
               /\ Vmat' = vm
               /\ V_i' = vi
               /\ V_a' = va
               /\ PF_continuous' = ArgMaxAxis2(vm)
               /\ TV' = b.TV
               /\ V' = b.V
               /\ IF VstoreSlot(VFiter) \in DOMAIN Vstore
                  THEN /\ Vstore' = [Vstore EXCEPT ![VstoreSlot(VFiter)] = b.V]
                       /\ VFdist' = SupDist(b.V, b.TV)
                       /\ VFiter' = VFiter + 1
                       /\ pc' = "loop"
                  ELSE \* Vstore[:, :, VFiter] out of bounds
                       /\ pc' = "IndexError"
                       /\ UNCHANGED <<Vstore, VFdist, VFiter>>
    /\ napps' = napps + 1
    /\ Vprev' = V
    /\ VFdistPrev' = VFdist
    /\ UNCHANGED <<sizez, z, dens, kbar, lb_k, F, r, VFtol, VFmaxiter,
                   sizek, kvec, e_i, outvars>>
    /\ written' = Cells

\* the loop body up to the call of create_Vmat
IterateHead ==
    /\ pc = "loop"
    /\ LoopCond(VFdist, VFtol, VFiter, VFmaxiter)
    /\ sizek > 0
    /\ LET ev == Dot(Pi, V)
       IN /\ TV' = V
          /\ EV' = ev
          /\ EV_i' = TileAssign(ShiftAssign(EV_i, ev), ev)
    /\ written' = {}
    /\ pc' = "create_Vmat"
    /\ UNCHANGED <<cfgvars, gridvars, outvars, V, Vmat, V_i, V_a,
                   PF_continuous, Vstore, VFdist, VFiter, napps, Vprev,
                   VFdistPrev>>
\* one pass of the innermost loop body of create_Vmat, the cells taken in
\* any order
WriteCell ==
    /\ pc = "create_Vmat"
    /\ \E c \in Cells \ written :
           /\ Vmat' = [Vmat EXCEPT ![c[1]][c[2]][c[3]] =
                          CellOf(EV, e_a, Vmat, c[1], c[2], c[3])]
           /\ written' = written \cup {c}
    /\ UNCHANGED <<pc, cfgvars, gridvars, outvars, V, TV, EV, EV_i, V_i, V_a,
                   PF_continuous, Vstore, VFdist, VFiter, napps, Vprev,
                   VFdistPrev>>
\* the loop body after create_Vmat has returned
IterateTail ==
    /\ pc = "create_Vmat"
    /\ written = Cells
    /\ LET vi == [i \in Zs |-> [j \in Ks |->
                     Add(e_i[i][j], Beta(EV_i[i][j]))]]
           va == MaxAxis2(Vmat)
           b == Rebind(V, Maximum(va, vi))
       IN /\ V_i' = vi
          /\ V_a' = va
          /\ PF_continuous' = ArgMaxAxis2(Vmat)
          /\ TV' = b.TV
          /\ V' = b.V
          /\ IF VstoreSlot(VFiter) \in DOMAIN Vstore
             THEN /\ Vstore' = [Vstore EXCEPT ![VstoreSlot(VFiter)] = b.V]
                  /\ VFdist' = SupDist(b.V, b.TV)
                  /\ VFiter' = VFiter + 1
                  /\ pc' = "loop"
             ELSE /\ pc' = "IndexError"
                  /\ UNCHANGED <<Vstore, VFdist, VFiter>>
    /\ napps' = napps + 1
    /\ Vprev' = V
    /\ VFdistPrev' = VFdist
    /\ UNCHANGED <<cfgvars, gridvars, outvars, EV, EV_i, Vmat, written>>

\* the loop condition fails: report, and VF = V
ExitLoop ==
    /\ pc = "loop"
    /\ ~LoopCond(VFdist, VFtol, VFiter, VFmaxiter)
    /\ report' = Report(VFiter, VFmaxiter)
    /\ VF' = V
    /\ pc' = "policy"
    /\ UNCHANGED <<cfgvars, gridvars, loopvars, PF_discrete, optK, optI>>
    /\ UNCHANGED written
\* np.max(a, axis): the second positional argument of np.max is the axis
\* of the reduction; on a scalar a the reduction returns a itself
np_max(a, axis) == a

\* ties resolved to the active branch
PolicyDiscreteStrict(vi, va, i, j) ==
    IF Gt(vi[i][j], va[i][j]) THEN 0
    ELSE IF Geq(va[i][j], vi[i][j]) THEN 1
    ELSE Garbage
\* one pass of the body of the policy loop at cell (i, j)
PolicyDiscrete(vi, va, i, j) ==
    IF Geq(vi[i][j], va[i][j]) THEN 0
    ELSE IF Gt(va[i][j], vi[i][j]) THEN 1
    ELSE Garbage
\* the depreciation index written in every cell, active or not
PolicyContinuousEverywhere(vi, va, pf, i, j) == np_max(j - dens, 0)
PolicyContinuous(vi, va, pf, i, j) ==
    IF Geq(vi[i][j], va[i][j]) THEN np_max(j - dens, 0)
    ELSE pf[i][j]

\* the discrete choice policy loop
BuildPolicy ==
    /\ pc = "policy"
    /\ IF V_i = Unbound \/ V_a = Unbound
       THEN \* the loop body never ran: V_i and V_a are not defined
            /\ pc' = "NameError"
            /\ UNCHANGED <<PF_discrete, PF_continuous>>
       ELSE /\ PF_discrete' =
                [i \in Zs |-> [j \in Ks |-> PolicyDiscrete(V_i, V_a, i, j)]]
            /\ PF_continuous' =
                [i \in Zs |-> [j \in Ks |->
                    PolicyContinuous(V_i, V_a, PF_continuous, i, j)]]
            /\ pc' = "extract"
    /\ UNCHANGED <<cfgvars, gridvars, report, VF, optK, optI, V, TV, EV, EV_i,
                   Vmat, V_i, V_a, Vstore, VFdist, VFiter, napps, Vprev,
                   VFdistPrev>>
    /\ UNCHANGED written

\* the position numpy reads for index idx of an axis of length n
InRange(n, idx) == idx >= 0 - n /\ idx < n
Position(n, idx) == IF idx < 0 THEN idx + n ELSE idx

\* a 1-D array broadcast against a (sizez, sizek) array supplies, at cell
\* (i, j), its element on the last axis
BroadcastFirstAxis(a, i, j) == a[IF i \in DOMAIN a THEN i ELSE 0]
Broadcast(a, i, j) == a[j]

\* cell 9: optK = kvec[PF_continuous]; optI = optK - (1 - delta) * kvec
ExtractPolicy ==
    /\ pc = "extract"
    /\ IF \A i \in Zs, j \in Ks : InRange(sizek, PF_continuous[i][j])
       THEN LET ok == [i \in Zs |-> [j \in Ks |->
                          kvec[Position(sizek, PF_continuous[i][j])]]]
            IN /\ optK' = ok
               /\ optI' = [i \in Zs |-> [j \in Ks |->
                              ok[i][j] - Depreciated(Broadcast(kvec, i, j), dens)]]
               /\ pc' = "done"
       ELSE /\ pc' = "IndexError"
            /\ UNCHANGED <<optK, optI>>
    /\ UNCHANGED <<cfgvars, gridvars, loopvars, report, VF, PF_discrete>>
    /\ UNCHANGED written

Next ==
    \/ BuildGrid
    \/ BuildPayoffs
    \/ InitVFI
    \/ Iterate
    \/ ExitLoop
    \/ BuildPolicy
    \/ ExtractPolicy

Spec == Init /\ [][Next]_vars

\* the notebook run from any configuration
SpecAny == InitAny /\ [][Next]_vars

\* the notebook with the cells of Vmat written one at a time in any order,
\* on the grids small enough to enumerate the orders
NextCells ==
    \/ BuildGrid
    \/ BuildPayoffs
    \/ InitVFI
    \/ IterateHead
    \/ WriteCell
    \/ IterateTail
    \/ ExitLoop
    \/ BuildPolicy
    \/ ExtractPolicy
InitCells == Init /\ kbar <= 16 /\ VFmaxiter <= 3
SpecCells == InitCells /\ [][NextCells]_vars

\* the notebook runs its cells to the end: no step is postponed for ever
FairSpec == Spec /\ WF_vars(Next)

TypeOK ==
    /\ pc \in {"grid", "payoffs", "vfi", "loop", "create_Vmat", "policy",
               "extract", "done", "NameError", "IndexError", "ValueError"}
    /\ VFiter \in 0..MaxIter
    /\ napps \in 0..MaxIter
\* ------------------------------------------------------------ properties
\* the loop has been left and the report printed
Reported == pc \in {"policy", "extract", "done", "NameError"}
\* the policy loop has run
PolicyBuilt == pc \in {"extract", "done"}

\* C1: the VFI loop terminates: every run reaches the end of the loop with
\* the distance within tolerance (Converged) or the counter at the ceiling
\* (MaxIterExceeded), and the loop body never runs more than
\* max_iterations - 1 times.
C1_LoopTerminates ==
    /\ <>(pc = "policy" /\ (~(VFdist > VFtol) \/ VFiter >= VFmaxiter))
    /\ [](napps <= VFmaxiter - 1)
\* a run that used all max_iterations - 1 applications and stopped at the
\* ceiling with the distance still above tolerance
C1_Witness ==
    /\ pc = "policy" /\ VFmaxiter >= 3 /\ napps = VFmaxiter - 1
    /\ VFiter = VFmaxiter /\ VFdist > VFtol

\* C2 as stated: below the ceiling the loop goes on for every distance >=
\* tolerance (distance = tolerance included) and stops for every distance
\* < tolerance.
C2_StopsOnlyBelowTolerance ==
    [][(pc = "loop" /\ VFiter < VFmaxiter) =>
         IF VFdist >= VFtol THEN napps' = napps + 1 ELSE pc' = "policy"]_vars
\* C2 amended: below the ceiling the loop goes on exactly when distance >
\* tolerance; it stops for every distance <= tolerance, distance =
\* tolerance included.
C2_StopsAtOrBelowTolerance ==
    [][(pc = "loop" /\ VFiter < VFmaxiter) =>
         IF VFdist > VFtol THEN napps' = napps + 1 /\ pc' = "loop"
         ELSE pc' = "policy" /\ napps' = napps]_vars
\* the loop was left below the ceiling with a computed distance equal to
\* the tolerance
C2_Witness ==
    /\ pc = "policy" /\ napps >= 1 /\ VFiter < VFmaxiter
    /\ VFdist = VFtol /\ VFtol > 0

\* C3: the report names the terminal state that was reached: after a run
\* of the loop body, "converged" is reported only if the last distance met
\* the tolerance and "did not converge" only if the loop ended at the
\* ceiling with the distance not below tolerance; so a run whose distance
\* falls below tolerance on the iteration that brings the counter to
\* max_iterations is reported as converged.  (A distance equal to the
\* tolerance is left open here: it is the subject of C2.)
C3_ReportNamesTerminalState ==
    (Reported /\ napps >= 1) =>
        /\ report = "converged" => VFdist <= VFtol
        /\ report = "did not converge" =>
               (VFiter >= VFmaxiter /\ VFdist >= VFtol)

\* C4: a run that ends at the ceiling with the distance above tolerance is
\* reported as not converged, and "converged" is never reported with a
\* final distance above tolerance.
C4_NoFalseConvergence ==
    Reported =>
        /\ (VFiter >= VFmaxiter /\ VFdist > VFtol)
               => report = "did not converge"
        /\ report = "converged" => ~(VFdist > VFtol)
C4_Witness ==
    /\ pc = "policy" /\ napps >= 1 /\ VFiter = VFmaxiter
    /\ VFdist > VFtol /\ report = "did not converge"

\* C5: after the policy loop, every cell where the inactive branch is at
\* least as good holds the index max(k - dens, 0).
C5_InactiveIndexClamped ==
    PolicyBuilt =>
        \A i \in Zs, j \in Ks :
            V_i[i][j] >= V_a[i][j] =>
                PF_continuous[i][j] = IF j >= dens THEN j - dens ELSE 0

\* C6: after the policy loop every entry of PF_continuous is a grid index
\* in 0..sizek-1, so kvec[PF_continuous] is never read at a negative or
\* too large index.
C6_IndicesInGrid ==
    PolicyBuilt => \A i \in Zs, j \in Ks : PF_continuous[i][j] \in Ks

\* C7: after the policy loop, PF_discrete is 0 exactly where V_i >= V_a and
\* 1 exactly where V_a > V_i; a tie is inactive.
C7_TieBreakInactive ==
    PolicyBuilt =>
        \A i \in Zs, j \in Ks :
            /\ (PF_discrete[i][j] = 0) <=> (V_i[i][j] >= V_a[i][j])
            /\ (PF_discrete[i][j] = 1) <=> (V_a[i][j] > V_i[i][j])
\* a finished policy with an exact tie, resolved to inactive
C7_Witness ==
    /\ PolicyBuilt
    /\ \E i \in Zs, j \in Ks :
           V_i[i][j] = V_a[i][j] /\ PF_discrete[i][j] = 0
    /\ \E i \in Zs, j \in Ks : PF_discrete[i][j] = 1

\* C8: after every iteration EV_i is EV shifted by dens along the capital
\* axis and clamped at the floor: EV_i[z,j] = EV[z,j-dens] for j >= dens
\* and EV_i[z,j] = EV[z,0] for j < dens; the slice bound sizek - dens is
\* never negative, so no index of EV wraps around.
C8_ShiftedAndClamped ==
    napps >= 1 =>
        /\ sizek - dens >= 0
        /\ \A i \in Zs, j \in Ks :
               /\ j >= dens => EV_i[i][j] = EV[i][j - dens]
               /\ j < dens => EV_i[i][j] = EV[i][0]
\* an iteration on a grid with more than one column on each side of dens,
\* where EV differs between the first two columns
C8_Witness ==
    /\ napps >= 2 /\ dens >= 2 /\ sizek > dens
    /\ \E i \in Zs : EV[i][0] # EV[i][1] /\ EV_i[i][1] = EV[i][0]
                     /\ EV_i[i][dens] = EV[i][0]

\* C9: after every iteration V is the elementwise maximum of the two
\* branches built from the previous V: V_a is the maximum over k' of
\* e_a + beta * EV, V_i is e_i + beta * (EV shifted and clamped), and
\* EV = Pi * V_previous.
C9_BellmanStep ==
    napps >= 1 =>
        \A i \in Zs, j \in Ks :
            /\ V[i][j] >= V_a[i][j] /\ V[i][j] >= V_i[i][j]
            /\ V[i][j] \in {V_a[i][j], V_i[i][j]}
            /\ \A m \in Ks :
                   (1 + r) * (V_a[i][j] - e_a[i][j][m]) >= EV[i][m]
            /\ \E m \in Ks :
                   (1 + r) * (V_a[i][j] - e_a[i][j][m]) = EV[i][m]
            /\ (1 + r) * (V_i[i][j] - e_i[i][j]) =
                   EV[i][IF j >= dens THEN j - dens ELSE 0]
            /\ PiDen * EV[i][j] =
                   SumTo([l \in Zs |-> Pi[i][l] * Vprev[l][j]], sizez)
\* a second or later iteration in which each branch wins somewhere
C9_Witness ==
    /\ napps >= 2 /\ sizez = 2
    /\ \E i \in Zs, j \in Ks : V_a[i][j] > V_i[i][j]
    /\ \E i \in Zs, j \in Ks : V_i[i][j] > V_a[i][j]

\* C10: the distance of an iteration is the sup-norm difference between
\* the new V and the V held when the iteration started; TV still holds
\* that earlier V when the distance is taken.
C10_DistanceAgainstPreviousIterate ==
    napps >= 1 =>
        /\ TV = Vprev
        /\ \A i \in Zs, j \in Ks : VFdist >= Abs(V[i][j] - Vprev[i][j])
        /\ \E i \in Zs, j \in Ks : VFdist = Abs(V[i][j] - Vprev[i][j])
C10_Witness ==
    /\ napps >= 2 /\ pc = "loop" /\ VFdist > 0 /\ TV # V
C12_DistancesContract ==
    (napps >= 2 /\ pc \in {"loop", "policy", "extract", "done"}) =>
        /\ (1 + r) * VFdist <= VFdistPrev
        /\ VFdist <= VFdistPrev
\* a third or later iteration whose distance is positive and strictly less
\* than beta times the one before
C12_Witness ==
    /\ napps >= 3 /\ pc = "loop" /\ VFdist > 0
    /\ (1 + r) * VFdist < VFdistPrev
\* C14: a configuration error is rejected before any grid is built: with
\* kbar <= lb_k the run either has not yet started or has stopped with an
\* error there: the run never gets past the grid cell to the payoffs or
\* to a VFI iteration.
C14_ConfigErrorRejected ==
    kbar <= lb_k => (pc \in {"grid", "ValueError"} /\ napps = 0)
\* C15: policy extractor: optK[z,k] is the grid point that PF_continuous[z,k]
\* indexes (a negative index counting from the top of the grid, as numpy
\* reads it) and optI[z,k] = optK[z,k] - (1-delta)*kvec[k], the subtracted
\* term taken at the capital index k of the cell, not at its productivity
\* index.
C15_PolicyExtractor ==
    pc = "done" =>
        \A i \in Zs, j \in Ks :
            /\ optK[i][j] = kvec[IF PF_continuous[i][j] >= 0
                                 THEN PF_continuous[i][j]
                                 ELSE sizek + PF_continuous[i][j]]
            /\ Pow(4, dens) * (optK[i][j] - optI[i][j]) = kvec[j]
\* an extracted policy on two productivity states and several capital
\* points, with a cell off the diagonal that invests
C15_Witness ==
    /\ pc = "done" /\ sizez = 2 /\ sizek >= 2
    /\ \E i \in Zs, j \in Ks :
           i # j /\ PF_continuous[i][j] >= 0 /\ optI[i][j] > 0
\* C16: the capital grid is strictly increasing (so without duplicates),
\* has ceil(log(lb_k/kbar)/log(1-delta)) * dens points, ends at kbar, and a
\* shift by dens positions is one depreciation step:
\* kvec[j - dens] = (1-delta) * kvec[j] for every j >= dens.
C16_CapitalGrid ==
    pc # "grid" =>
        /\ \A j \in Ks : j + 1 \in Ks => kvec[j] < kvec[j + 1]
        /\ sizek >= 1 /\ kvec[sizek - 1] = kbar * Scale
        /\ \E numb \in 1..sizek :
               /\ sizek = numb * dens
               /\ lb_k * Pow(Pow(4, dens), numb) >= kbar
               /\ lb_k * Pow(Pow(4, dens), numb - 1) < kbar
        /\ \A j \in Ks : j >= dens => Pow(4, dens) * kvec[j - dens] = kvec[j]
\* a grid of two depreciation steps with two points to the step
C16_Witness ==
    /\ pc = "payoffs" /\ dens = 2 /\ sizek = 4 /\ kvec[0] < kvec[3]
\* C17: threshold structure: once the policy of a run reported as converged
\* is built, for each productivity index the inactive capital indices form
\* one contiguous range: no active cell lies between two inactive cells.
C17_ContiguousInaction ==
    (PolicyBuilt /\ VFdist <= VFtol /\ report = "converged") =>
        \A i \in Zs : \A a \in Ks, b \in Ks, c \in Ks :
            (a < b /\ b < c /\ PF_discrete[i][a] = 0 /\ PF_discrete[i][c] = 0)
                => PF_discrete[i][b] = 0
\* C18: numerical degeneracy is surfaced: a non-finite flow payoff never
\* enters the value function; while the loop runs or after it has ended,
\* every entry of V is finite.
C18_NonFiniteNeverInV ==
    pc \in {"loop", "policy", "extract", "done"} =>
        \A i \in Zs, j \in Ks : IsFinite(V[i][j])
\* C19: the driver starts from V = 0 with the counter at 1; at every loop
\* head, and when the report is printed, the counter is one more than the
\* number of Bellman applications made so far.
C19_CounterOneAhead ==
    /\ (pc = "loop" \/ Reported) => VFiter = napps + 1
    /\ (pc = "loop" /\ napps = 0) =>
           /\ VFiter = 1
           /\ \A i \in Zs, j \in Ks : V[i][j] = 0
\* a run printed as converged after two applications, with the count 3
C19_Witness ==
    /\ pc = "policy" /\ report = "converged" /\ napps = 2 /\ VFiter = 3
\* C20: the flow payoffs, the transition matrix and the capital grid are
\* immutable during the solve: no step of the loop, of create_Vmat or of the
\* policy construction changes e_a, e_i, Pi or kvec.
C20_PayoffsAndGridImmutable ==
    [][(pc \in {"loop", "policy", "extract"}) =>
           (e_a' = e_a /\ e_i' = e_i /\ Pi' = Pi /\ kvec' = kvec)]_vars
\* a finished run of two or more iterations whose payoffs are still the ones
\* the payoff cell built
C20_Witness ==
    /\ pc = "done" /\ napps >= 2
    /\ e_a = e_aOf(z, kbar, sizez, sizek, kvec, dens, F)
    /\ e_i = e_iOf(z, kbar, sizez, sizek)
\* C21: within one iteration the cells of Vmat can be written in any order
\* with the same result: a write changes its own cell only, every written
\* cell holds e[i, j, m] + betafirm * EV[i, m] whatever was written before
\* it, and when all are written Vmat is the array create_Vmat returns.
C21_CellsInAnyOrder ==
    /\ [](pc = "create_Vmat" =>
             /\ \A c \in written :
                    Vmat[c[1]][c[2]][c[3]] =
                        create_Vmat(EV, e_a, Vmat)[c[1]][c[2]][c[3]]
             /\ written = Cells => Vmat = create_Vmat(EV, e_a, Vmat))
    /\ [][(pc = "create_Vmat" /\ pc' = "create_Vmat") =>
             \A c \in Cells :
                 (c \in written \/ c \notin written') =>
                     Vmat'[c[1]][c[2]][c[3]] = Vmat[c[1]][c[2]][c[3]]]_vars
\* in a later iteration, a cell written before the cell to its left
C21_Witness ==
    /\ pc = "create_Vmat" /\ napps >= 1 /\ sizek = 2
    /\ <<0, 0, 1>> \in written /\ <<0, 0, 0>> \notin written
    /\ EV[0][1] > 0
\* C22: where the active branch is chosen at termination, PF_continuous keeps
\* the argmax index of Vmat[z, k, :] of the last iteration, so that
\* Vmat[z, k, PF_continuous[z, k]] = V_a[z, k]; the policy loop changes
\* PF_continuous in inactive cells only.
C22_ActiveKeepsArgmax ==
    /\ [](PolicyBuilt =>
             \A i \in Zs, j \in Ks :
                 V_a[i][j] > V_i[i][j] =>
                     /\ PF_continuous[i][j] = ArgMaxAxis2(Vmat)[i][j]
                     /\ Vmat[i][j][PF_continuous[i][j]] = V_a[i][j])
    /\ [][(pc = "policy" /\ pc' = "extract") =>
             \A i \in Zs, j \in Ks :
                 PF_continuous'[i][j] # PF_continuous[i][j] =>
                     V_i[i][j] >= V_a[i][j]]_vars
\* a built policy with an active cell whose choice is not the depreciation
\* index beside an inactive cell whose index was rewritten
C22_Witness ==
    /\ pc = "done"
    /\ \E i \in Zs, j \in Ks :
           /\ V_a[i][j] > V_i[i][j]
           /\ PF_continuous[i][j] # j - dens
    /\ \E i \in Zs, j \in Ks :
           /\ V_i[i][j] >= V_a[i][j]
           /\ PF_continuous[i][j] # ArgMaxAxis2(Vmat)[i][j]
\* C23: at termination every entry of PF_discrete has been assigned and is
\* 0 or 1: in every cell one of the two branches of the policy loop ran, and
\* no cell keeps the content of the np.empty allocation.
C23_PolicyDiscreteAssigned ==
    PolicyBuilt => \A i \in Zs, j \in Ks : PF_discrete[i][j] \in {0, 1}
\* C24: the returned value function agrees with the reported policy: at
\* termination VF[z, k] = V_i[z, k] where PF_discrete[z, k] = 0 and
\* VF[z, k] = V_a[z, k] where PF_discrete[z, k] = 1, and V_i, V_a are the
\* branch values of the last iteration, computed from the value function
\* before it and not from VF.
C24_ValueMatchesPolicy ==
    PolicyBuilt =>
        LET ev == Dot(Pi, Vprev)
        IN \A i \in Zs, j \in Ks :
               /\ PF_discrete[i][j] = 0 => VF[i][j] = V_i[i][j]
               /\ PF_discrete[i][j] = 1 => VF[i][j] = V_a[i][j]
               /\ V_i[i][j] =
                      Add(e_i[i][j],
                          Beta(TileAssign(ShiftAssign(EV_i, ev), ev)[i][j]))
               /\ V_a[i][j] = MaxAxis2(create_Vmat(ev, e_a, Vmat))[i][j]
\* a finished run with a strictly inactive and an active cell whose value
\* function is not yet a fixed point
C24_Witness ==
    /\ pc = "done" /\ napps >= 2
    /\ \E i \in Zs, j \in Ks : PF_discrete[i][j] = 0 /\ V_i[i][j] > V_a[i][j]
    /\ \E i \in Zs, j \in Ks : PF_discrete[i][j] = 1
    /\ Bellman(VF) # VF
\* C25: inside the active branch the depreciation path is the inactive value
\* less the fixed cost: after every iteration, for k >= dens,
\* Vmat[z, k, k - dens] = V_i[z, k] - F * kvec[k]; hence with F > 0 a cell
\* where the active branch is chosen never has the index k - dens.
C25_DepreciationPathDominated ==
    /\ (napps >= 1 /\ pc \in {"loop", "policy", "extract", "done"}) =>
           \A i \in Zs, j \in Ks :
               j >= dens =>
                   Vmat[i][j][j - dens] =
                       V_i[i][j] - FixedCost(F, kvec[j])
    /\ (PolicyBuilt /\ F > 0) =>
           \A i \in Zs, j \in Ks :
               PF_discrete[i][j] = 1 => PF_continuous[i][j] # j - dens
\* a finished run with a positive fixed cost and an active cell at or above
\* dens
C25_Witness ==
    /\ pc = "done" /\ F > 0 /\ napps >= 2
    /\ \E i \in Zs, j \in Ks :
           j >= dens /\ PF_discrete[i][j] = 1
               /\ Vmat[i][j][j - dens] < V_i[i][j]
\* C26: an inactive firm has zero net investment: where PF_discrete = 0,
\* optK is the pure-depreciation capital (kvec[k - dens] for k >= dens,
\* kvec[0] for k < dens), optI is 0 for k >= dens and
\* kvec[0] - (1 - delta) * kvec[k] for k < dens, and optK is never the
\* capital of a grid point above kvec[k].
C26_InactiveZeroNetInvestment ==
    pc = "done" =>
        \A i \in Zs, j \in Ks :
            PF_discrete[i][j] = 0 =>
                /\ optK[i][j] = kvec[IF j >= dens THEN j - dens ELSE 0]
                /\ j >= dens => optI[i][j] = 0
                /\ j < dens =>
                       optI[i][j] = kvec[0] - Depreciated(kvec[j], dens)
                /\ optK[i][j] <= kvec[j]
\* C27: the value-function iterates are entrywise non-decreasing: the first
\* iterate is at or above V_0 = 0 and every later iterate is at or above
\* the one before it, in every cell.
C27_IteratesNonDecreasing ==
    (napps >= 1 /\ pc \in {"loop", "policy", "extract", "done"}) =>
        /\ \A i \in Zs, j \in Ks : e_i[i][j] >= 0
        /\ \A i \in Zs, j \in Ks : V[i][j] >= Vprev[i][j]
        /\ napps = 1 => \A i \in Zs, j \in Ks : Vprev[i][j] = 0
\* a third iterate strictly above the second in some cell
C27_Witness ==
    /\ pc = "loop" /\ napps = 3
    /\ \E i \in Zs, j \in Ks : V[i][j] > Vprev[i][j] /\ Vprev[i][j] > 0
\* C28: policy construction always has branch values to read: for every
\* tolerance and every max_iterations the loop body has run at least once
\* when the policy loop reads V_i and V_a.
C28_LoopBodyRunsOnce ==
    pc \in {"policy", "extract", "done", "NameError"} =>
        /\ napps >= 1
        /\ V_i # Unbound /\ V_a # Unbound
        /\ pc # "NameError"
\* C29: the reused buffers hold no stale or uninitialised cell when read:
\* in every iteration each cell of EV_i (columns below dens and from dens
\* on) and each cell of Vmat is overwritten from the current EV, and V_i,
\* V_a and the argmax are computed from the overwritten buffers.
C29_BuffersOverwritten ==
    (napps >= 1 /\ pc \in {"loop", "policy", "extract", "done"}) =>
        /\ EV = Dot(Pi, Vprev)
        /\ \A i \in Zs, j \in Ks :
               /\ EV_i[i][j] # Garbage
               /\ EV_i[i][j] = EV[i][IF j >= dens THEN j - dens ELSE 0]
               /\ V_i[i][j] = Add(e_i[i][j], Beta(EV_i[i][j]))
               /\ \A m \in Ks :
                      /\ Vmat[i][j][m] # Garbage
                      /\ Vmat[i][j][m] = Add(e_a[i][j][m], Beta(EV[i][m]))
        /\ V_a = MaxAxis2(Vmat)
        /\ pc = "loop" => PF_continuous = ArgMaxAxis2(Vmat)
\* a third pass over buffers that hold the values of the second, with an
\* expected value that has changed since
C29_Witness ==
    /\ pc = "loop" /\ napps = 3 /\ sizek > dens
    /\ \E i \in Zs, j \in Ks : EV[i][j] # Dot(Pi, Vstore[1])[i][j]
\* C30: the iterate history is written at in-range slots only: an iteration
\* writes the slot of the counter before its increment, which lies in
\* 1..max_iterations - 1; slot n holds the value function after the n-th
\* Bellman application, slot 0 is never written and no write goes past the
\* last slot.
C30_VstoreSlotsInRange ==
    /\ []((pc \in {"loop", "policy", "extract", "done", "NameError"}) =>
             /\ DOMAIN Vstore = 0..(VFmaxiter - 1)
             /\ napps <= VFmaxiter - 1
             /\ Vstore[0] = Unbound
             /\ \A n \in DOMAIN Vstore : n > napps => Vstore[n] = Unbound
             /\ napps >= 1 => Vstore[napps] = V
             /\ napps >= 2 => Vstore[napps - 1] = Vprev)
    /\ [](pc # "IndexError")
    /\ [][(pc = "loop" /\ napps' = napps + 1) =>
             /\ VFiter \in 1..(VFmaxiter - 1)
             /\ Vstore' = [Vstore EXCEPT ![VFiter] = V']
             /\ VFiter = napps'
             /\ VFiter' = VFiter + 1]_vars
\* a run that filled every slot but slot 0
C30_Witness ==
    /\ pc = "policy" /\ VFmaxiter >= 3 /\ napps = VFmaxiter - 1
    /\ \A n \in 1..(VFmaxiter - 1) : Vstore[n] # Unbound
    /\ Vstore[1] # Vstore[2]
====
